---- MODULE Spec2Model ----
(***************************************************************************)
(* Model of src/app.py: a Streamlit page that extracts the text of an      *)
(* uploaded CV (PDF or DOCX), posts it with a job description to the       *)
(* Gemini API inside a retry loop, and renders the parsed analysis.        *)
(*                                                                         *)
(* One run of the script is the sequence                                   *)
(*   upload block -> button handler -> (attempt / sleep)* -> rendering.    *)
(* Streamlit reruns the whole script after every widget interaction; the   *)
(* widgets (file uploader, text area) keep their values between runs and   *)
(* every other name of the script is rebuilt by the run.                   *)
(*                                                                         *)
(* Python values: None is the empty tuple, a present value x is <<x>>;     *)
(* a dict is a function on its keys, a list is a sequence.  Everything     *)
(* the script shows is appended to ui, in order, as one string per call.   *)
(***************************************************************************)
EXTENDS Integers, Sequences, FiniteSets, TLC

VARIABLES uploaded_cv, job_description, button, pc, cv_text, retries,
          analysis_result, ui, exception,
          posts, sleeps, attemptLog, extractions, outcome

vars == <<uploaded_cv, job_description, button, pc, cv_text, retries,
          analysis_result, ui, exception,
          posts, sleeps, attemptLog, extractions, outcome>>

(* ------------------------------ bounds -------------------------------- *)
\* pages of a PDF / paragraphs of a DOCX
MaxPages == 2

(* --------------------------- Python values ---------------------------- *)
None == <<>>
Some(x) == <<x>>

\* truthiness of a str-or-None
TruthyStr(x) == x # None /\ x[1] # ""

\* truthiness of a dict or list: non-empty
TruthyContainer(v) == DOMAIN v # {}

\* d.get(k) is truthy
GetTruthy(d, k) == k \in DOMAIN d /\ TruthyContainer(d[k])

\* d.get(k, default)
Get(d, k, default) == IF k \in DOMAIN d THEN d[k] ELSE default

In(s, m) == \E i \in DOMAIN s : s[i] = m

(* ----------------------------- documents ------------------------------ *)
\* A page of a PDF: extract_text() raises, or returns None or a string.
PdfPages ==
    { [raises |-> TRUE, text |-> None],
      [raises |-> FALSE, text |-> None],
      [raises |-> FALSE, text |-> Some("")],
      [raises |-> FALSE, text |-> Some("a")] }

\* A paragraph of a DOCX: .text is always a string.
DocxParagraphs ==
    { [raises |-> TRUE, text |-> None],
      [raises |-> FALSE, text |-> Some("")],
      [raises |-> FALSE, text |-> Some("a")] }

SeqsUpTo(S, n) == UNION { [1..k -> S] : k \in 0..n }

\* An uploaded file; name is its file name cut at the dots (the uploader
\* accepts only pdf and docx).  opens = FALSE: PdfReader()/Document() raises.
Docs ==
    { [name |-> <<"cv", "pdf">>, opens |-> TRUE, units |-> u] :
          u \in SeqsUpTo(PdfPages, MaxPages) }
    \cup { [name |-> <<"cv", "docx">>, opens |-> TRUE, units |-> u] :
          u \in SeqsUpTo(DocxParagraphs, MaxPages) }
    \cup { [name |-> n, opens |-> FALSE, units |-> <<>>] :
          n \in {<<"cv", "pdf">>, <<"cv", "docx">>} }

JobDescriptions == {"", "jd"}

\* page.extract_text() or ""
OrEmpty(t) == IF TruthyStr(t) THEN t[1] ELSE ""

RECURSIVE PdfLoop(_, _)
PdfLoop(text, pages) ==
    IF pages = <<>> THEN text
    ELSE PdfLoop(text \o OrEmpty(Head(pages).text), Tail(pages))

RECURSIVE DocxLoop(_, _)
DocxLoop(text, paragraphs) ==
    IF paragraphs = <<>> THEN text
    ELSE DocxLoop(text \o Head(paragraphs).text[1] \o "\n", Tail(paragraphs))

DocRaises(doc) == ~doc.opens \/ \E i \in DOMAIN doc.units : doc.units[i].raises

\* [ret: the returned text or None, ui: what the call showed]
extract_text_from_pdf(doc) ==
    IF DocRaises(doc)
    THEN [ret |-> None, ui |-> <<"error: Error al leer el PDF">>]
    ELSE [ret |-> Some(PdfLoop("", doc.units)), ui |-> <<>>]

extract_text_from_docx(doc) ==
    IF DocRaises(doc)
    THEN [ret |-> None, ui |-> <<"error: Error al leer el DOCX">>]
    ELSE [ret |-> Some(DocxLoop("", doc.units)), ui |-> <<>>]

\* uploaded_cv.name.split(".")[-1].lower()
file_extension(doc) == doc.name[Len(doc.name)]

(* ---------------------------- the service ----------------------------- *)
\* line 97: the fields the request schema marks as required
Required ==
    {"profile_analysis", "strengths", "weaknesses", "interview_questions",
     "affinity_score", "reasoning_score"}

\* affinity scores the service may send; the schema asks for 1..10
Scores == {0, 1, 10, 11}

FieldValue(f, score) ==
    CASE f = "profile_analysis" -> "pa"
      [] f = "strengths" -> <<"s1", "s2">>
      [] f = "weaknesses" -> <<"w1">>
      [] f = "interview_questions" -> <<[question |-> "q1", optimal_answer |-> "a1"], [question |-> "q2"]>>
      [] f = "affinity_score" -> score
      [] f = "reasoning_score" -> "rs"

Payload(F, score) == [f \in F |-> FieldValue(f, score)]

\* JSON objects the embedded text may encode: complete, one required field
\* missing, and the empty object.
Payloads ==
    { Payload(Required, s) : s \in Scores }
    \cup { Payload(Required \ {f}, 10) : f \in Required }
    \cup { Payload({}, 10) }

\* The embedded text: it encodes a JSON value, or it is not JSON.
Texts ==
    { [wellformed |-> TRUE, value |-> p] : p \in Payloads }
    \cup { [wellformed |-> FALSE, value |-> <<>>] }

Envelope(part) == [candidates |-> <<[content |-> [parts |-> <<part>>]]>>]

\* The JSON bodies of a 2xx response.
Envelopes ==
    { Envelope([text |-> t]) : t \in Texts }
    \cup { <<>>,
           [candidates |-> <<>>],
           [candidates |-> << <<>> >>],
           [candidates |-> <<[content |-> <<>>]>>],
           [candidates |-> <<[content |-> [parts |-> <<>>]]>>],
           Envelope(<<>>) }

\* What requests.post / raise_for_status / response.json raise.  A 2xx body
\* that is not JSON raises requests.exceptions.JSONDecodeError (a
\* RequestException) in requests >= 2.27 and json.JSONDecodeError before.
Responses ==
    { [raises |-> e, result |-> <<>>] :
          e \in {"RequestException", "requests.JSONDecodeError", "json.JSONDecodeError"} }
    \cup { [raises |-> "", result |-> env] : env \in Envelopes }

\* line 120: json.loads(json_string)
json_loads(t) ==
    IF t.wellformed THEN [exc |-> "", value |-> t.value]
    ELSE [exc |-> "json.JSONDecodeError", value |-> <<>>]

\* line 118
EnvelopeCondition(result) ==
    /\ GetTruthy(result, "candidates")
    /\ GetTruthy(result["candidates"][1], "content")
    /\ GetTruthy(result["candidates"][1]["content"], "parts")

\* lines 113-123, the body of the try: the exception it raises ("" if none),
\* the value it returns and whether it reported an invalid response.
TryBody(r) ==
    IF r.raises # "" THEN [exc |-> r.raises, ret |-> None, invalid |-> FALSE]
    ELSE IF EnvelopeCondition(r.result)
    THEN LET part == r.result["candidates"][1]["content"]["parts"][1] IN
         IF "text" \notin DOMAIN part
         THEN [exc |-> "KeyError", ret |-> None, invalid |-> FALSE]
         ELSE LET parsed == json_loads(part["text"]) IN
              IF parsed.exc # ""
              THEN [exc |-> parsed.exc, ret |-> None, invalid |-> FALSE]
              ELSE [exc |-> "", ret |-> Some(parsed.value), invalid |-> FALSE]
    ELSE [exc |-> "", ret |-> None, invalid |-> TRUE]

\* the decode error handled like a network error
ExceptClauseRetryAll(exc) ==
    IF exc \in {"RequestException", "requests.JSONDecodeError", "json.JSONDecodeError"}
    THEN "retry"
    ELSE "uncaught"

\* lines 124-133: the except clause that catches exc, first match first.
ExceptClause(exc) ==
    IF exc \in {"RequestException", "requests.JSONDecodeError"} THEN "retry"
    ELSE IF exc = "json.JSONDecodeError" THEN "decode_error"
    ELSE "uncaught"

\* line 108
max_retries == 5

\* the loop entered once more: retries <= max_retries
LoopConditionOffByOne == retries <= max_retries

\* line 110
LoopCondition == retries < max_retries

\* the backoff capped at 8 time units
BackoffCapped(n) == IF 2 ^ n > 8 THEN 8 ELSE 2 ^ n

\* line 129: 2 ** retries
Backoff(n) == 2 ^ n

(* ------------------------------ the page ------------------------------ *)
\* Besides the script's names: posts counts the requests.post calls of the run,
\* sleeps lists the asyncio.sleep durations, extractions counts the calls of the
\* extract functions, attemptLog has one entry per post (the response, the
\* exception the try body raised, the last sleep before the post), and outcome
\* says how get_gemini_analysis ended.
Init ==
    /\ uploaded_cv = None
    /\ job_description = ""
    /\ button = FALSE
    /\ pc = "idle"
    /\ cv_text = None
    /\ retries = 0
    /\ analysis_result = None
    /\ ui = <<>>
    /\ exception = ""
    /\ posts = 0
    /\ sleeps = <<>>
    /\ attemptLog = <<>>
    /\ extractions = 0
    /\ outcome = ""

\* A widget interaction: Streamlit reruns the script from its first line with
\* the widgets' values; nothing else of the previous run survives.
Rerun(file, text, pressed) ==
    /\ pc = "idle"
    /\ uploaded_cv' = file
    /\ job_description' = text
    /\ button' = pressed
    /\ pc' = "upload"
    /\ cv_text' = None
    /\ retries' = 0
    /\ analysis_result' = None
    /\ ui' = <<>>
    /\ exception' = ""
    /\ posts' = 0
    /\ sleeps' = <<>>
    /\ attemptLog' = <<>>
    /\ extractions' = 0
    /\ outcome' = ""

\* line 148: st.file_uploader
UploadFile == \E d \in Docs : Rerun(Some(d), job_description, FALSE)

RemoveFile == uploaded_cv # None /\ Rerun(None, job_description, FALSE)

\* line 171: st.text_area
EditJobDescription ==
    \E j \in JobDescriptions : j # job_description /\ Rerun(uploaded_cv, j, FALSE)

\* line 180: st.button
PressButton == Rerun(uploaded_cv, job_description, TRUE)

\* lines 150-166
Extracted(file) ==
    IF file = None THEN [ret |-> None, ui |-> <<>>, calls |-> 0]
    ELSE IF file_extension(file[1]) = "pdf"
    THEN [ret |-> extract_text_from_pdf(file[1]).ret,
          ui |-> extract_text_from_pdf(file[1]).ui, calls |-> 1]
    ELSE IF file_extension(file[1]) = "docx"
    THEN [ret |-> extract_text_from_docx(file[1]).ret,
          ui |-> extract_text_from_docx(file[1]).ui, calls |-> 1]
    ELSE [ret |-> None, ui |-> <<>>, calls |-> 0]

\* lines 160-166: what the upload block shows for the extracted text
UploadReport(file, text) ==
    IF file = None THEN <<>>
    ELSE IF TruthyStr(text)
    THEN <<"success: CV cargado y texto extraido correctamente.", "text_area: " \o text[1]>>
    ELSE <<"error: No se pudo extraer el texto del CV.">>

CVUploadBlock ==
    /\ pc = "upload"
    /\ LET e == Extracted(uploaded_cv) IN
       /\ cv_text' = e.ret
       /\ extractions' = extractions + e.calls
       /\ ui' = ui \o e.ui \o UploadReport(uploaded_cv, e.ret)
    /\ pc' = "button"
    /\ UNCHANGED <<uploaded_cv, job_description, button, retries, analysis_result,
                   exception, posts, sleeps, attemptLog, outcome>>

\* the job description left out of the check
InputsPresentCvOnly == TruthyStr(cv_text)

\* line 182
InputsPresent == TruthyStr(cv_text) /\ job_description # ""

\* lines 180-190 and 233-234, up to the call of get_gemini_analysis
AnalysisButton ==
    /\ pc = "button"
    /\ IF ~button
       THEN /\ pc' = "idle"
            /\ UNCHANGED <<ui, retries>>
       ELSE IF InputsPresent
       THEN /\ ui' = Append(ui, "info: Analizando el CV con IA Gemini.")
            /\ retries' = 0
            /\ pc' = "loop"
       ELSE /\ ui' = Append(ui, "warning: Por favor, carga un CV y proporciona la descripcion del puesto antes de analizar.")
            /\ pc' = "idle"
            /\ UNCHANGED retries
    /\ UNCHANGED <<uploaded_cv, job_description, button, cv_text, analysis_result,
                   exception, posts, sleeps, attemptLog, extractions, outcome>>

LastSleep == IF sleeps = <<>> THEN 0 ELSE sleeps[Len(sleeps)]

\* lines 110-133: one iteration of the retry loop up to its sleep
Attempt ==
    /\ pc = "loop"
    /\ LoopCondition
    /\ \E r \in Responses :
        LET t == TryBody(r)
            clause == ExceptClause(t.exc)
        IN
        /\ posts' = posts + 1
        /\ attemptLog' = Append(attemptLog, [resp |-> r, exc |-> t.exc, wait |-> LastSleep])
        /\ IF t.exc = ""
           THEN IF t.invalid
                THEN /\ ui' = Append(ui, "error: La API de Gemini no devolvio una respuesta valida o completa.")
                     /\ analysis_result' = None
                     /\ outcome' = "invalid_response"
                     /\ pc' = "render"
                     /\ UNCHANGED <<retries, exception>>
                ELSE /\ analysis_result' = t.ret
                     /\ outcome' = "returned"
                     /\ pc' = "render"
                     /\ UNCHANGED <<ui, retries, exception>>
           ELSE IF clause = "retry"
           THEN /\ ui' = Append(ui, "warning: Error de red o API (intento "
                                    \o ToString(retries + 1) \o "/" \o ToString(max_retries) \o ")")
                /\ retries' = retries + 1
                /\ pc' = "sleep"
                /\ UNCHANGED <<analysis_result, outcome, exception>>
           ELSE IF clause = "decode_error"
           THEN /\ ui' = Append(ui, "error: Error al decodificar la respuesta JSON de Gemini")
                /\ analysis_result' = None
                /\ outcome' = "decode_error"
                /\ pc' = "render"
                /\ UNCHANGED <<retries, exception>>
           ELSE /\ exception' = t.exc
                /\ outcome' = "raised"
                /\ pc' = "idle"
                /\ UNCHANGED <<ui, retries, analysis_result>>
    /\ UNCHANGED <<uploaded_cv, job_description, button, cv_text, sleeps, extractions>>

\* line 129: await asyncio.sleep(2 ** retries)
Sleep ==
    /\ pc = "sleep"
    /\ sleeps' = Append(sleeps, Backoff(retries))
    /\ pc' = "loop"
    /\ UNCHANGED <<uploaded_cv, job_description, button, cv_text, retries,
                   analysis_result, ui, exception, posts, attemptLog,
                   extractions, outcome>>

\* lines 134-136
Exhausted ==
    /\ pc = "loop"
    /\ ~LoopCondition
    /\ ui' = Append(ui, "error: Se agotaron los intentos para llamar a la API de Gemini.")
    /\ analysis_result' = None
    /\ outcome' = "exhausted"
    /\ pc' = "render"
    /\ UNCHANGED <<uploaded_cv, job_description, button, cv_text, retries, exception,
                   posts, sleeps, attemptLog, extractions>>

\* the result rendered only when every required field is present
ResultComplete(res) == res # None /\ Required \subseteq DOMAIN res[1]

\* line 192: a dict is truthy when it is not empty
ResultTruthy(res) == res # None /\ TruthyContainer(res[1])

\* st.progress(value) for a float: 0.0 <= value <= 1.0, else StreamlitAPIException;
\* value = affinity_score / 10.0
ProgressAccepts(score) == 0 <= score /\ score <= 10

RECURSIVE Bullets(_)
Bullets(items) ==
    IF items = <<>> THEN <<>> ELSE <<"- " \o Head(items)>> \o Bullets(Tail(items))

RECURSIVE Questions(_, _)
Questions(qas, i) ==
    IF qas = <<>> THEN <<>>
    ELSE <<"Pregunta " \o ToString(i + 1) \o ": " \o Get(Head(qas), "question", "N/A"),
           "Respuesta Optima: " \o Get(Head(qas), "optimal_answer", "N/A")>>
         \o Questions(Tail(qas), i + 1)

\* lines 193-202
ReportHead(a) ==
    <<"success: Analisis completado!",
      "Puntuacion de Afinidad: "
          \o (IF "affinity_score" \in DOMAIN a THEN ToString(a["affinity_score"]) ELSE "N/A")
          \o "/10",
      "Razonamiento: " \o Get(a, "reasoning_score", "No disponible.")>>

\* lines 205-230
ReportBody(a) ==
    <<"Analisis del Perfil", Get(a, "profile_analysis", "No disponible."), "Fortalezas">>
    \o Bullets(Get(a, "strengths", <<>>))
    \o <<"Debilidades">>
    \o Bullets(Get(a, "weaknesses", <<>>))
    \o <<"Preguntas de Entrevista Sugeridas">>
    \o (IF Get(a, "interview_questions", <<>>) # <<>>
        THEN Questions(a["interview_questions"], 0)
        ELSE <<"No se pudieron generar preguntas de entrevista.">>)

\* line 203: the exception st.progress(affinity_score / 10.0) raises, "" if none
ProgressRaises(a) ==
    IF "affinity_score" \notin DOMAIN a THEN "TypeError"
    ELSE IF ~ProgressAccepts(a["affinity_score"]) THEN "StreamlitAPIException"
    ELSE ""

\* lines 192-232
Render ==
    /\ pc = "render"
    /\ IF ResultTruthy(analysis_result)
       THEN LET a == analysis_result[1] IN
            IF ProgressRaises(a) # ""
            THEN /\ ui' = ui \o ReportHead(a)
                 /\ exception' = ProgressRaises(a)
            ELSE /\ ui' = ui \o ReportHead(a)
                            \o <<"progress: " \o ToString(a["affinity_score"]) \o "/10">>
                            \o ReportBody(a)
                 /\ UNCHANGED exception
       ELSE /\ ui' = Append(ui, "error: No se pudo obtener un analisis de Gemini.")
            /\ UNCHANGED exception
    /\ pc' = "idle"
    /\ UNCHANGED <<uploaded_cv, job_description, button, cv_text, retries,
                   analysis_result, posts, sleeps, attemptLog,
                   extractions, outcome>>

Next ==
    \/ UploadFile
    \/ RemoveFile
    \/ EditJobDescription
    \/ PressButton
    \/ CVUploadBlock
    \/ AnalysisButton
    \/ Attempt
    \/ Sleep
    \/ Exhausted
    \/ Render

Spec == Init /\ [][Next]_vars

(* ------------------------------- claims ------------------------------- *)
RECURSIVE Pow2(_)
Pow2(k) == IF k = 0 THEN 1 ELSE 2 * Pow2(k - 1)

RunOver == pc = "idle"

\* the envelope has the shape {candidates: [{content: {parts: [{text: ...}]}}]}
WellFormedEnvelope(result) ==
    /\ "candidates" \in DOMAIN result
    /\ result["candidates"] # <<>>
    /\ "content" \in DOMAIN result["candidates"][1]
    /\ "parts" \in DOMAIN result["candidates"][1]["content"]
    /\ result["candidates"][1]["content"]["parts"] # <<>>
    /\ "text" \in DOMAIN result["candidates"][1]["content"]["parts"][1]

EmbeddedText(result) == result["candidates"][1]["content"]["parts"][1]["text"]

\* a 2xx response whose envelope deviates from the shape
EnvelopeDeviation(r) == r.raises = "" /\ ~WellFormedEnvelope(r.result)

\* a 2xx response with a well-formed envelope whose text is not JSON
ParseFailure(r) ==
    r.raises = "" /\ WellFormedEnvelope(r.result) /\ ~EmbeddedText(r.result).wellformed

\* a 2xx response with a well-formed envelope whose text is JSON
ParsedOk(r) ==
    r.raises = "" /\ WellFormedEnvelope(r.result) /\ EmbeddedText(r.result).wellformed

Rendered == In(ui, "success: Analisis completado!")

\* C1: one call of get_gemini_analysis posts at most max_retries = 5 times,
\* and after the 5th post no further post is made in that call.
C1_AtMostMaxRetriesPosts ==
    /\ [](posts <= max_retries /\ Len(attemptLog) = posts)
    /\ [][(posts = max_retries /\ pc # "idle") => posts' = posts]_vars

C1_Witness ==
    /\ outcome = "exhausted"
    /\ posts = max_retries
    /\ \A i \in DOMAIN attemptLog : attemptLog[i].exc = "RequestException"

\* C2: when all 5 attempts fail with a transport/HTTP error the caller sees the
\* exhausted-retries failure after exactly the 4 waits 2, 4, 8, 16 (30 in
\* all), no wait after the last failed attempt, and no analysis result.
C2_FourWaitsThenExhausted ==
    (/\ outcome = "exhausted"
     /\ \A i \in DOMAIN attemptLog : attemptLog[i].exc = "RequestException")
    => (sleeps = <<2, 4, 8, 16>> /\ analysis_result = None)

C4_EnvelopeDeviationReported ==
    \A i \in DOMAIN attemptLog :
        EnvelopeDeviation(attemptLog[i].resp) =>
            /\ i = Len(attemptLog)
            /\ pc \in {"render", "idle"}
            /\ outcome = "invalid_response"
            /\ exception = ""
            /\ analysis_result = None
            /\ Len(sleeps) = i - 1
            /\ In(ui, "error: La API de Gemini no devolvio una respuesta valida o completa.")

\* C5: a well-formed envelope whose text is not JSON ends the call at once in
\* the parse-error outcome: no result, the retry counter not advanced, no
\* further attempt and no wait, whatever the number of failed attempts before.
C5_ParseFailureTerminal ==
    \A i \in DOMAIN attemptLog :
        ParseFailure(attemptLog[i].resp) =>
            /\ i = Len(attemptLog)
            /\ pc \in {"render", "idle"}
            /\ outcome = "decode_error"
            /\ analysis_result = None
            /\ retries = i - 1
            /\ Len(sleeps) = i - 1
            /\ In(ui, "error: Error al decodificar la respuesta JSON de Gemini")

C5_Witness ==
    /\ RunOver
    /\ outcome = "decode_error"
    /\ Len(attemptLog) = 3
    /\ ParseFailure(attemptLog[3].resp)

C7_NoUncaughtException ==
    (outcome = "returned" /\ ResultTruthy(analysis_result)
        /\ "affinity_score" \notin DOMAIN analysis_result[1])
    => exception = ""

\* C8 (as claimed): a run whose trigger is pressed with no file or an empty
\* job description makes no extraction call and no post.
C8_NoExtractionNoPost ==
    (button /\ (uploaded_cv = None \/ job_description = "")) =>
        (extractions = 0 /\ posts = 0)

\* C8 (amended): such a run makes no post and ends with the warning; it makes
\* no extraction call when no file is uploaded, but with a file uploaded and
\* an empty job description the upload block has extracted the file's text
\* before the warning.
C8_NoPostOnInputError ==
    (button /\ (uploaded_cv = None \/ job_description = "")) =>
        /\ posts = 0
        /\ pc \notin {"loop", "sleep", "render"}
        /\ uploaded_cv = None => extractions = 0
        /\ (uploaded_cv # None /\ pc # "upload") => extractions = 1
        /\ RunOver =>
               ui[Len(ui)] = "warning: Por favor, carga un CV y proporciona la descripcion del puesto antes de analizar."

C8_Witness ==
    /\ RunOver
    /\ button
    /\ uploaded_cv # None
    /\ TruthyStr(cv_text)
    /\ job_description = ""
    /\ extractions = 1

\* C9: a parsed result whose affinity_score lies outside 1..10 is never
\* presented as a successful analysis: a run that has shown the report to
\* its end without an error has a score in 1..10.
C9_OutOfRangeNotPresented ==
    (RunOver /\ Rendered /\ exception = "") =>
        analysis_result[1]["affinity_score"] \in 1..10

\* C10: a PDF that opens and parses is not reported as an extraction
\* failure, even when every one of its pages yields no text.
C10_EmptyTextNotFailure ==
    (/\ pc # "upload"
     /\ uploaded_cv # None
     /\ file_extension(uploaded_cv[1]) = "pdf"
     /\ uploaded_cv[1].units # <<>>
     /\ ~DocRaises(uploaded_cv[1]))
    => ~In(ui, "error: No se pudo extraer el texto del CV.")

====
